---------------------------- MODULE Spec2Model ----------------------------
(***************************************************************************)
(* Model of the test-automation server: the local result store (utils.py), *)
(* the issue tracker as seen through jira_client.py (with the extraction   *)
(* of the test steps from an issue description), the three request         *)
(* handlers of main.py and the DependencyResolver of                       *)
(* dependency_resolver.py.                                                 *)
(*                                                                         *)
(* A completion record is modelled by its test_case_key and overall_result *)
(* (steps_results and timestamp are carried along by the code and never    *)
(* read).  A test case is modelled by its key and status.                  *)
(***************************************************************************)
EXTENDS Integers, Sequences, FiniteSets, TLC

VARIABLES
    results_file,     \* the RESULTS_FILE on disk: [valid, test_results]
    issue_status,     \* tracker: status of every issue
    issue_links,      \* tracker: keys each issue is linked to as "blocked by"
    completed_tests,  \* DependencyResolver.completed_tests (the cached snapshot)
    resp              \* what the last call returned to its caller

vars == <<results_file, issue_status, issue_links, completed_tests, resp>>

(***************************************************************************)
(* Bounds and sets of inputs                                               *)
(***************************************************************************)
NumKeys == 2

Keys == 1..NumKeys

\* The longest description, in lines, and the widest table row, in cells
MaxLines == 3

MaxCells == 4

\* TestPromptRequest.test_case_key = None
NoKey == 0

\* A key the tracker has no issue for
UnknownKey == NumKeys + 1

\* "Backlog" stands for every tracker status other than the three the
\* system queries.
Statuses == {"To Do", "In Progress", "Done", "Backlog"}

\* The status in the placeholder that stands for "no test case" (None)
Absent == "<absent>"

\* TestResultSubmission.overall_result is any string
Results == {"Pass", "Fail", "Blocked"}

\* The overall_result values submitted where the tracker or the resolver
\* is part of the state
ApiResults == {"Pass", "Blocked"}

\* How one open(RESULTS_FILE, 'w') + json.dump can end: written; open()
\* raised (the file is untouched); the write raised after open() had
\* truncated the file (the file no longer decodes).
SaveOutcomes == {"ok", "open_fails", "write_fails"}

EmptyFile == [valid |-> TRUE, test_results |-> <<>>]

UnreadableFile == [valid |-> FALSE, test_results |-> <<>>]

NoResp == [op |-> "none", status_code |-> 0]

(***************************************************************************)
(* utils.py: the result store                                              *)
(***************************************************************************)
\* Mutant: True is returned on every path.
save_test_results_always_true(file, results, outcome) ==
    CASE outcome = "ok" ->
            [ok |-> TRUE, file |-> [valid |-> TRUE, test_results |-> results]]
      [] outcome = "open_fails" ->
            [ok |-> TRUE, file |-> file]
      [] OTHER ->
            [ok |-> TRUE, file |-> [valid |-> FALSE, test_results |-> <<>>]]

\* Returns [ok, file]: the return value and the file afterwards.
save_test_results(file, results, outcome) ==
    CASE outcome = "ok" ->
            [ok |-> TRUE, file |-> [valid |-> TRUE, test_results |-> results]]
      [] outcome = "open_fails" ->
            [ok |-> FALSE, file |-> file]
      [] OTHER ->
            [ok |-> FALSE, file |-> UnreadableFile]

\* Returns [results, file].  A file that is missing or does not decode is
\* replaced by an empty collection (the save inside may itself fail).
load_test_results(file, outcome) ==
    IF file.valid
    THEN [results |-> file.test_results, file |-> file]
    ELSE [results |-> <<>>,
          file |-> save_test_results(file, <<>>, outcome).file]

\* The index of the first record with this key, 0 when there is none
\* (the for loop of update_test_result).
RECURSIVE first_index(_, _, _)
first_index(results, key, i) ==
    IF i > Len(results) THEN 0
    ELSE IF results[i].test_case_key = key THEN i
    ELSE first_index(results, key, i + 1)

\* Mutant: a key that has a record keeps it; the submitted one is dropped.
update_test_result_first_wins(file, test_result, o_load, o_save) ==
    LET l == load_test_results(file, o_load)
        i == first_index(l.results, test_result.test_case_key, 1)
    IN  IF i > 0
        THEN save_test_results(l.file, l.results, o_save)
        ELSE save_test_results(l.file, Append(l.results, test_result), o_save)

\* Mutant: the record is appended whether or not the key has one.
update_test_result_append(file, test_result, o_load, o_save) ==
    LET l == load_test_results(file, o_load)
    IN  save_test_results(l.file, Append(l.results, test_result), o_save)

\* Returns [ok, file].
update_test_result(file, test_result, o_load, o_save) ==
    LET l == load_test_results(file, o_load)
        i == first_index(l.results, test_result.test_case_key, 1)
    IN  IF i > 0
        THEN save_test_results(l.file, [l.results EXCEPT ![i] = test_result], o_save)
        ELSE save_test_results(l.file, Append(l.results, test_result), o_save)

\* Mutant: every record that has an overall_result counts as completed.
IsCompletedRecord_any(result) == "overall_result" \in DOMAIN result

IsCompletedRecord(result) == result.overall_result \in {"Pass", "Fail"}

\* Returns [keys, file]: the list of keys and the file afterwards.
get_completed_test_keys(file, o_load) ==
    LET l == load_test_results(file, o_load)
        done == SelectSeq(l.results, IsCompletedRecord)
    IN  [keys |-> [i \in 1..Len(done) |-> done[i].test_case_key],
         file |-> l.file]

\* Returns [value, file].
is_test_completed(file, test_case_key, o_load) ==
    LET c == get_completed_test_keys(file, o_load)
    IN  [value |-> \E i \in 1..Len(c.keys) : c.keys[i] = test_case_key,
         file |-> c.file]

\* The outcomes a load can have: the save inside it runs only when the
\* file does not decode.
LoadOutcomes(file) == IF file.valid THEN {"ok"} ELSE SaveOutcomes

SeqToSet(s) == {s[i] : i \in 1..Len(s)}

(***************************************************************************)
(* jira_client.py: the issue tracker                                       *)
(***************************************************************************)
maxResults == 100

\* The keys of S, newest issue first (ORDER BY created DESC): a larger key
\* was created later.
RECURSIVE created_desc(_)
created_desc(S) ==
    IF S = {} THEN <<>>
    ELSE LET k == CHOOSE x \in S : \A y \in S : y <= x
         IN  <<k>> \o created_desc(S \ {k})

\* A description is a sequence of characters, each a string of length one;
\* "\n" separates its lines.

\* str.split(sep) for a separator of one character
RECURSIVE split(_, _)
split(s, sep) ==
    IF \A i \in 1..Len(s) : s[i] # sep THEN <<s>>
    ELSE LET i == CHOOSE n \in 1..Len(s) :
                     s[n] = sep /\ \A j \in 1..(n - 1) : s[j] # sep
         IN  <<SubSeq(s, 1, i - 1)>> \o split(SubSeq(s, i + 1, Len(s)), sep)

\* str.strip(): the white space of the model is the space
RECURSIVE strip(_)
strip(s) ==
    IF s = <<>> THEN s
    ELSE IF Head(s) = " " THEN strip(Tail(s))
    ELSE IF s[Len(s)] = " " THEN strip(SubSeq(s, 1, Len(s) - 1))
    ELSE s

startswith(s, prefix) ==
    Len(s) >= Len(prefix) /\ SubSeq(s, 1, Len(prefix)) = prefix

\* part in s
contains(s, part) ==
    \E i \in 1..(Len(s) - Len(part) + 1) : SubSeq(s, i, i + Len(part) - 1) = part

\* Mutant: the cells are stripped but the empty ones are kept.
row_cells_keep_empty(line) ==
    LET cells == split(line, "|")
    IN  [i \in 1..Len(cells) |-> strip(cells[i])]

\* cells = [cell.strip() for cell in line.split('|') if cell.strip()]
row_cells(line) ==
    LET cells == split(line, "|")
        kept == SelectSeq(cells, LAMBDA cell : strip(cell) # <<>>)
    IN  [i \in 1..Len(kept) |-> strip(kept[i])]

\* The for loop over the lines, from line i on: the steps it appends.
RECURSIVE pipe_table_steps(_, _, _)
pipe_table_steps(lines, i, header_found) ==
    IF i > Len(lines) THEN <<>>
    ELSE IF startswith(lines[i], <<"|", "|">>) /\ ~header_found
    THEN pipe_table_steps(lines, i + 1, TRUE)
    ELSE IF startswith(lines[i], <<"|">>) /\ header_found
    THEN LET cells == row_cells(lines[i])
         IN  (IF Len(cells) >= 3
              THEN <<[test |-> cells[1], test_step |-> cells[2],
                      expected_output |-> cells[3]]>>
              ELSE <<>>)
             \o pipe_table_steps(lines, i + 1, header_found)
    ELSE pipe_table_steps(lines, i + 1, header_found)

\* The descriptions of the model hold no "<": the branch for HTML tables
\* is not taken and the steps stay empty without a "||".
_extract_test_steps_from_description(description) ==
    IF contains(description, <<"|", "|">>)
    THEN pipe_table_steps(split(description, "\n"), 1, FALSE)
    ELSE <<>>

_process_test_case(key, status_of) == [key |-> key, status |-> status_of[key]]

\* The search against a tracker whose issues have the statuses status_of
search_by_status(status_of, status) ==
    LET issues == created_desc({k \in Keys : status_of[k] = status})
        page == SubSeq(issues, 1, IF Len(issues) < maxResults THEN Len(issues) ELSE maxResults)
    IN  [i \in 1..Len(page) |-> _process_test_case(page[i], status_of)]

get_test_cases_by_status(status) == search_by_status(issue_status, status)

\* Returns [found, test_case]; found = FALSE stands for None.  Every
\* exception of the tracker call is swallowed into None.
get_test_case_by_key(issue_key, jira_up) ==
    IF jira_up /\ issue_key \in Keys
    THEN [found |-> TRUE, test_case |-> _process_test_case(issue_key, issue_status)]
    ELSE [found |-> FALSE, test_case |-> [key |-> NoKey, status |-> Absent]]

TestKeys(tests) == {tests[i].key : i \in 1..Len(tests)}

(***************************************************************************)
(* main.py: the request handlers                                           *)
(***************************************************************************)
\* Mutant: the keys of the Done bucket are not subtracted.
incomplete_keys_not_done(todo_tests, in_progress_tests, done_tests, completed_keys) ==
    (TestKeys(todo_tests) \cup TestKeys(in_progress_tests)) \ SeqToSet(completed_keys)

\* incomplete_keys = active_keys - done_keys - set(completed_keys)
incomplete_keys(todo_tests, in_progress_tests, done_tests, completed_keys) ==
    ((TestKeys(todo_tests) \cup TestKeys(in_progress_tests))
        \ TestKeys(done_tests)) \ SeqToSet(completed_keys)

\* GET /incomplete-tests.  The three searches are three calls to the
\* tracker: between the second and the third its users may move an issue
\* (moved, NoKey for none) to "Done".  The response carries, besides what
\* the client is sent, the keys each search returned.
get_incomplete_tests(jira_up, moved, o_load) ==
    IF ~jira_up
    THEN /\ resp' = [op |-> "get_incomplete_tests", status_code |-> 500]
         /\ UNCHANGED <<results_file, issue_status, issue_links, completed_tests>>
    ELSE LET todo_tests == get_test_cases_by_status("To Do")
             in_progress_tests == get_test_cases_by_status("In Progress")
             status_then == IF moved \in Keys
                            THEN [issue_status EXCEPT ![moved] = "Done"]
                            ELSE issue_status
             done_tests == search_by_status(status_then, "Done")
             c == get_completed_test_keys(results_file, o_load)
             inc == incomplete_keys(todo_tests, in_progress_tests, done_tests, c.keys)
             incomplete_tests ==
                 SelectSeq(todo_tests \o in_progress_tests, LAMBDA t : t.key \in inc)
         IN  /\ results_file' = c.file
             /\ issue_status' = status_then
             /\ resp' = [op |-> "get_incomplete_tests", status_code |-> 200,
                         incomplete_tests |-> incomplete_tests,
                         count |-> Len(incomplete_tests),
                         todo_keys |-> TestKeys(todo_tests),
                         in_progress_keys |-> TestKeys(in_progress_tests),
                         done_keys |-> TestKeys(done_tests)]
             /\ UNCHANGED <<issue_links, completed_tests>>

AllOk == [lookup_ok |-> TRUE, search_ok |-> TRUE, log_ok |-> TRUE]

\* What the handler's surroundings do during one request: at most one of
\* the tracker's issue lookup, the tracker's search and the write of the
\* per-test log file raises.
Envs ==
    {[lookup_ok |-> TRUE, search_ok |-> TRUE, log_ok |-> TRUE],
     [lookup_ok |-> FALSE, search_ok |-> TRUE, log_ok |-> TRUE],
     [lookup_ok |-> TRUE, search_ok |-> FALSE, log_ok |-> TRUE],
     [lookup_ok |-> TRUE, search_ok |-> TRUE, log_ok |-> FALSE]}

\* prompt_generator.generate_prompt: the prompt names the test case
generate_prompt(test_case) == [prompt_for |-> test_case.key]

\* Mutant: the check against the tracker's Done bucket is left out.
get_test_prompt_no_done_check(test_case_key, env, o_load) ==
    LET t == get_test_case_by_key(test_case_key, env.lookup_ok)
        c == get_completed_test_keys(results_file, o_load)
        base == [op |-> "get_test_prompt", test_case_key |-> test_case_key,
                 env |-> env]
    IN  /\ UNCHANGED <<issue_status, issue_links, completed_tests>>
        /\ IF ~t.found
           THEN /\ resp' = base @@ [status_code |-> 404, message |-> "not found"]
                /\ UNCHANGED results_file
           ELSE /\ results_file' = c.file
                /\ resp' =
                     IF test_case_key \in SeqToSet(c.keys)
                     THEN base @@ [status_code |-> 400,
                                   message |-> "already completed locally"]
                     ELSE IF ~env.search_ok \/ ~env.log_ok
                     THEN base @@ [status_code |-> 500, message |-> "error"]
                     ELSE base @@ [status_code |-> 200,
                                   prompt |-> generate_prompt(t.test_case)]

\* POST /get-test-prompt
get_test_prompt(test_case_key, env, o_load) ==
    LET t == get_test_case_by_key(test_case_key, env.lookup_ok)
        c == get_completed_test_keys(results_file, o_load)
        done_keys == TestKeys(get_test_cases_by_status("Done"))
        base == [op |-> "get_test_prompt", test_case_key |-> test_case_key,
                 env |-> env]
    IN  /\ UNCHANGED <<issue_status, issue_links, completed_tests>>
        /\ IF ~t.found
           THEN /\ resp' = base @@ [status_code |-> 404, message |-> "not found"]
                /\ UNCHANGED results_file
           ELSE /\ results_file' = c.file
                /\ resp' =
                     IF test_case_key \in SeqToSet(c.keys)
                     THEN base @@ [status_code |-> 400,
                                   message |-> "already completed locally"]
                     ELSE IF ~env.search_ok
                     THEN base @@ [status_code |-> 500, message |-> "error"]
                     ELSE IF test_case_key \in done_keys
                     THEN base @@ [status_code |-> 400,
                                   message |-> "already marked as Done in Jira"]
                     ELSE IF ~env.log_ok
                     THEN base @@ [status_code |-> 500, message |-> "error"]
                     ELSE base @@ [status_code |-> 200,
                                   prompt |-> generate_prompt(t.test_case)]

\* Mutant: the completed keys are read before the record is written.
send_test_results_keys_before_update(test_case_key, overall_result, env, o_load, o_save) ==
    LET test_result == [test_case_key |-> test_case_key,
                        overall_result |-> overall_result]
        c0 == get_completed_test_keys(results_file, o_load)
        u == update_test_result(c0.file, test_result, o_load, o_save)
        inc == incomplete_keys(get_test_cases_by_status("To Do"),
                               get_test_cases_by_status("In Progress"),
                               get_test_cases_by_status("Done"), c0.keys)
        base == [op |-> "send_test_results", update_successful |-> u.ok]
    IN  /\ UNCHANGED <<issue_status, issue_links, completed_tests>>
        /\ results_file' = u.file
        /\ resp' =
              IF ~u.ok \/ ~env.log_ok \/ ~env.search_ok
              THEN base @@ [status_code |-> 500]
              ELSE base @@ [status_code |-> 200,
                            submitted |-> test_result,
                            has_more_tests |-> Cardinality(inc) > 0,
                            remaining_test_count |-> Cardinality(inc)]

\* POST /send-test-results.  The response carries, besides what the client
\* is sent, the submission it answers and what update_test_result returned.
send_test_results(test_case_key, overall_result, env, o_load, o_save) ==
    LET test_result == [test_case_key |-> test_case_key,
                        overall_result |-> overall_result]
        u == update_test_result(results_file, test_result, o_load, o_save)
        c == get_completed_test_keys(u.file, o_load)
        inc == incomplete_keys(get_test_cases_by_status("To Do"),
                               get_test_cases_by_status("In Progress"),
                               get_test_cases_by_status("Done"), c.keys)
        base == [op |-> "send_test_results", update_successful |-> u.ok]
    IN  /\ UNCHANGED <<issue_status, issue_links, completed_tests>>
        /\ IF ~u.ok
           THEN /\ results_file' = u.file
                /\ resp' = base @@ [status_code |-> 500]
           ELSE /\ results_file' = c.file
                /\ resp' =
                     IF ~env.log_ok \/ ~env.search_ok
                     THEN base @@ [status_code |-> 500]
                     ELSE base @@ [status_code |-> 200,
                                   submitted |-> test_result,
                                   has_more_tests |-> Cardinality(inc) > 0,
                                   remaining_test_count |-> Cardinality(inc)]

(***************************************************************************)
(* Direct calls of the utils.py operations                                 *)
(***************************************************************************)
\* Mutant: the update also brings the resolver's cache up to date.
call_update_test_result_refreshing(test_case_key, overall_result, o_load, o_save) ==
    LET u == update_test_result(results_file,
                 [test_case_key |-> test_case_key, overall_result |-> overall_result],
                 o_load, o_save)
    IN  /\ results_file' = u.file
        /\ resp' = [op |-> "update_test_result", status_code |-> 0,
                    test_case_key |-> test_case_key,
                    overall_result |-> overall_result, ok |-> u.ok]
        /\ completed_tests' =
              SeqToSet(get_completed_test_keys(u.file, "open_fails").keys)
        /\ UNCHANGED <<issue_status, issue_links>>

call_update_test_result(test_case_key, overall_result, o_load, o_save) ==
    LET u == update_test_result(results_file,
                 [test_case_key |-> test_case_key, overall_result |-> overall_result],
                 o_load, o_save)
    IN  /\ results_file' = u.file
        /\ resp' = [op |-> "update_test_result", status_code |-> 0,
                    test_case_key |-> test_case_key,
                    overall_result |-> overall_result, ok |-> u.ok]
        /\ UNCHANGED <<issue_status, issue_links, completed_tests>>

call_get_completed_test_keys(o_load) ==
    LET c == get_completed_test_keys(results_file, o_load)
    IN  /\ results_file' = c.file
        /\ resp' = [op |-> "get_completed_test_keys", status_code |-> 0,
                    keys |-> c.keys]
        /\ UNCHANGED <<issue_status, issue_links, completed_tests>>

call_is_test_completed(test_case_key, o_load) ==
    LET c == is_test_completed(results_file, test_case_key, o_load)
    IN  /\ results_file' = c.file
        /\ resp' = [op |-> "is_test_completed", status_code |-> 0,
                    test_case_key |-> test_case_key, value |-> c.value]
        /\ UNCHANGED <<issue_status, issue_links, completed_tests>>

(***************************************************************************)
(* dependency_resolver.py: DependencyResolver.  self.completed_tests is    *)
(* the variable completed_tests.                                           *)
(***************************************************************************)
\* What the tracker does during one dependency lookup: the lookup by key
\* (get_test_case_by_key) may fail, the fetch of the issue with its links
\* may fail, or the loop over the links may raise at a link it cannot read.
\* parsed holds the keys whose links the loop gets to: every key when the
\* loop runs to its end, the one key whose link comes before the link that
\* raises otherwise.
DepOk == [lookup_ok |-> TRUE, issue_ok |-> TRUE, parsed |-> Keys]

DepEnvs ==
    {DepOk,
     [lookup_ok |-> FALSE, issue_ok |-> TRUE, parsed |-> Keys],
     [lookup_ok |-> TRUE, issue_ok |-> FALSE, parsed |-> Keys]}
    \cup {[lookup_ok |-> TRUE, issue_ok |-> TRUE, parsed |-> {k}] : k \in Keys}

\* The tracker's answers to the lookups of one call, per test: at most one
\* test's lookup fails, at the lookup by key or at the fetch of the issue.
DepEnvFunctions ==
    {[k \in Keys |-> DepOk]} \cup
    {[k \in Keys |-> IF k = f THEN e ELSE DepOk] :
        f \in Keys, e \in {env \in DepEnvs : ~env.lookup_ok \/ ~env.issue_ok}}

\* The keys the link rule of lines 98-102 selects among the issue's links
\* are issue_links[test_key].  The list is appended to inside the try
\* block: when the loop raises, the keys appended so far are returned.
_find_dependencies(test_key, env) ==
    IF ~get_test_case_by_key(test_key, env.lookup_ok).found THEN {}
    ELSE IF ~env.issue_ok THEN {}
    ELSE issue_links[test_key] \cap env.parsed

\* Mutant: a completed test is not turned away before its dependencies are
\* looked at.
_can_execute_test_no_early_return(test, env) ==
    \A dep_key \in _find_dependencies(test.key, env) : dep_key \in completed_tests

_can_execute_test(test, env) ==
    IF test.key \in completed_tests THEN FALSE
    ELSE \A dep_key \in _find_dependencies(test.key, env) :
             dep_key \in completed_tests

\* Mutant: the tests are returned oldest first.
find_executable_tests_reversed(status, envs) ==
    LET l == SelectSeq(get_test_cases_by_status(status),
                       LAMBDA test : _can_execute_test(test, envs[test.key]))
    IN  [i \in 1..Len(l) |-> l[Len(l) + 1 - i]]

find_executable_tests(status, envs) ==
    SelectSeq(get_test_cases_by_status(status),
              LAMBDA test : _can_execute_test(test, envs[test.key]))

\* Returns [found, test]; found = FALSE stands for None.
get_next_test(envs) ==
    LET executable_tests == find_executable_tests("To Do", envs)
    IN  IF Len(executable_tests) = 0
        THEN [found |-> FALSE, test |-> [key |-> NoKey, status |-> Absent]]
        ELSE [found |-> TRUE, test |-> executable_tests[1]]

\* Mutant: the snapshot is added to the cache, which keeps its old keys.
refresh_completed_tests_keeping(o_load) ==
    LET c == get_completed_test_keys(results_file, o_load)
    IN  /\ completed_tests' = completed_tests \cup SeqToSet(c.keys)
        /\ results_file' = c.file
        /\ resp' = [op |-> "refresh_completed_tests", status_code |-> 0]
        /\ UNCHANGED <<issue_status, issue_links>>

\* DependencyResolver.__init__ and refresh_completed_tests
refresh_completed_tests(o_load) ==
    LET c == get_completed_test_keys(results_file, o_load)
    IN  /\ completed_tests' = SeqToSet(c.keys)
        /\ results_file' = c.file
        /\ resp' = [op |-> "refresh_completed_tests", status_code |-> 0]
        /\ UNCHANGED <<issue_status, issue_links>>

call_can_execute_test(key, env) ==
    /\ resp' = [op |-> "_can_execute_test", status_code |-> 0, key |-> key,
                env |-> env,
                value |-> _can_execute_test([key |-> key], env)]
    /\ UNCHANGED <<results_file, issue_status, issue_links, completed_tests>>

call_find_dependencies(key, env) ==
    /\ resp' = [op |-> "_find_dependencies", status_code |-> 0, key |-> key,
                env |-> env, value |-> _find_dependencies(key, env)]
    /\ UNCHANGED <<results_file, issue_status, issue_links, completed_tests>>

\* A failing search raises out of find_executable_tests.
call_find_executable_tests(status, search_ok, envs) ==
    /\ resp' = IF search_ok
               THEN [op |-> "find_executable_tests", status_code |-> 0,
                     status |-> status, envs |-> envs, raised |-> FALSE,
                     value |-> find_executable_tests(status, envs)]
               ELSE [op |-> "find_executable_tests", status_code |-> 0,
                     status |-> status, raised |-> TRUE]
    /\ UNCHANGED <<results_file, issue_status, issue_links, completed_tests>>

call_get_next_test(search_ok, envs) ==
    /\ resp' = IF search_ok
               THEN [op |-> "get_next_test", status_code |-> 0,
                     envs |-> envs, raised |-> FALSE,
                     value |-> get_next_test(envs)]
               ELSE [op |-> "get_next_test", status_code |-> 0, raised |-> TRUE]
    /\ UNCHANGED <<results_file, issue_status, issue_links, completed_tests>>

(***************************************************************************)
(* The tracker is changed by its own users; the last response is then of   *)
(* the past.                                                               *)
(***************************************************************************)
TrackerChange(k, s) ==
    /\ issue_status[k] # s
    /\ issue_status' = [issue_status EXCEPT ![k] = s]
    /\ resp' = NoResp
    /\ UNCHANGED <<results_file, issue_links, completed_tests>>

Init ==
    /\ results_file = EmptyFile
    /\ issue_status \in [Keys -> Statuses]
    /\ issue_links = [k \in Keys |-> {}]
    /\ completed_tests = {}
    /\ resp = NoResp

\* The requests of the HTTP API, on a tracker whose issues change status.
Next ==
    \/ \E jira_up \in BOOLEAN, moved \in Keys \cup {NoKey},
          o \in LoadOutcomes(results_file) :
          get_incomplete_tests(jira_up, moved, o)
    \/ \E k \in Keys \cup {NoKey, UnknownKey}, o \in LoadOutcomes(results_file) :
          \E env \in IF k \in Keys THEN Envs ELSE {AllOk} :
             get_test_prompt(k, env, o)
    \/ \E k \in Keys, r \in ApiResults,
          o \in LoadOutcomes(results_file), o_save \in SaveOutcomes :
          \E env \in IF o_save = "ok" THEN {e \in Envs : e.lookup_ok} ELSE {AllOk} :
             send_test_results(k, r, env, o, o_save)
    \/ \E k \in Keys, s \in Statuses : TrackerChange(k, s)

Spec == Init /\ [][Next]_vars

\* The result store alone, used through utils.py.
InitStore ==
    /\ results_file = EmptyFile
    /\ issue_status = [k \in Keys |-> "To Do"]
    /\ issue_links = [k \in Keys |-> {}]
    /\ completed_tests = {}
    /\ resp = NoResp

NextStore ==
    \/ \E k \in Keys, r \in Results,
          o \in LoadOutcomes(results_file), o_save \in SaveOutcomes :
          call_update_test_result(k, r, o, o_save)
    \/ \E o \in LoadOutcomes(results_file) : call_get_completed_test_keys(o)
    \/ \E k \in Keys, o \in LoadOutcomes(results_file) : call_is_test_completed(k, o)

SpecStore == InitStore /\ [][NextStore]_vars

\* The resolver's queries, for every tracker and every cached completed set
\* (the cache is a snapshot of an earlier store: submissions and a store
\* reset since then make it any set of keys).
ResolverStatuses == {"To Do", "Done"}

LinkFunctions == {f \in [Keys -> SUBSET Keys] : \A k \in Keys : k \notin f[k]}

InitResolver ==
    /\ results_file = EmptyFile
    /\ issue_status \in [Keys -> ResolverStatuses]
    /\ issue_links \in LinkFunctions
    /\ completed_tests \in SUBSET Keys
    /\ resp = NoResp

NextResolver ==
    \/ \E k \in Keys \cup {UnknownKey} :
          \E env \in IF k \in Keys THEN DepEnvs ELSE {DepOk} :
             call_can_execute_test(k, env)
    \/ \E k \in Keys \cup {UnknownKey} :
          \E env \in IF k \in Keys THEN DepEnvs ELSE {DepOk} :
             call_find_dependencies(k, env)
    \/ \E s \in ResolverStatuses, ok \in BOOLEAN, envs \in DepEnvFunctions :
          call_find_executable_tests(s, ok, envs)
    \/ \E ok \in BOOLEAN, envs \in DepEnvFunctions : call_get_next_test(ok, envs)

SpecResolver == InitResolver /\ [][NextResolver]_vars

\* One resolver instance over a store that submissions change: no links at
\* all, or every link leads to one and the same blocking test.
SingleLinks == {f \in LinkFunctions : Cardinality(UNION {f[k] : k \in Keys}) <= 1}

InitCache ==
    /\ results_file = EmptyFile
    /\ issue_status = [k \in Keys |-> "To Do"]
    /\ issue_links \in SingleLinks
    /\ completed_tests = {}
    /\ resp = NoResp

NextCache ==
    \/ \E k \in Keys, r \in ApiResults,
          o \in LoadOutcomes(results_file), o_save \in SaveOutcomes :
          call_update_test_result(k, r, o, o_save)
    \/ \E o \in LoadOutcomes(results_file) : refresh_completed_tests(o)
    \/ \E k \in Keys, env \in DepEnvs : call_can_execute_test(k, env)
    \/ \E k \in Keys : call_find_dependencies(k, DepOk)
    \/ call_find_executable_tests("To Do", TRUE, [k \in Keys |-> DepOk])
    \/ call_get_next_test(TRUE, [k \in Keys |-> DepOk])

SpecCache == InitCache /\ [][NextCache]_vars

(***************************************************************************)
(* Descriptions in the tracker's table markup, as the argument of          *)
(* _extract_test_steps_from_description                                    *)
(***************************************************************************)
\* A cell that holds white space only
Blank == " "

Letters == <<"a", "b", "c", "d", "e", "f">>

\* n cells, the i-th holding the i-th letter; cell b (if any) is blank.
RowCells(n, b) == [i \in 1..n |-> IF i = b THEN Blank ELSE Letters[i]]

\* The lines of a description: a table row of up to MaxCells cells, at most
\* one of them blank; a header of two or three columns; a line of text with
\* pipes in it; a table row behind a space.
TableLines ==
    {[kind |-> "row", cells |-> RowCells(x[1], x[2])] :
        x \in {y \in (0..MaxCells) \X (0..MaxCells) : y[2] <= y[1]}}
    \cup {[kind |-> "header", cells |-> RowCells(n, 0)] : n \in {2, 3}}
    \cup {[kind |-> "text", cells |-> RowCells(3, 0)],
          [kind |-> "indented", cells |-> RowCells(3, 0)]}

Tables == UNION {[1..n -> TableLines] : n \in 0..MaxLines}

\* The text of cell i: a cell in an odd column is written with a space on
\* either side.
cell_text(i, cell) ==
    IF cell = Blank THEN <<" ">>
    ELSE IF i % 2 = 1 THEN <<" ", cell, " ">>
    ELSE <<cell>>

\* The cells from the i-th on, each followed by the separator
RECURSIVE cells_text(_, _, _)
cells_text(cells, i, sep) ==
    IF i > Len(cells) THEN <<>>
    ELSE cell_text(i, cells[i]) \o sep \o cells_text(cells, i + 1, sep)

line_text(line) ==
    CASE line.kind = "header" ->
            <<"|", "|">> \o cells_text(line.cells, 1, <<"|", "|">>)
      [] line.kind = "row" ->
            <<"|">> \o cells_text(line.cells, 1, <<"|">>)
      [] line.kind = "indented" ->
            <<" ", "|">> \o cells_text(line.cells, 1, <<"|">>)
      [] OTHER -> cells_text(line.cells, 1, <<"|">>)

\* The description: the lines from the i-th on, "\n" between them
RECURSIVE description_text(_, _)
description_text(table, i) ==
    IF i > Len(table) THEN <<>>
    ELSE IF i = Len(table) THEN line_text(table[i])
    ELSE line_text(table[i]) \o <<"\n">> \o description_text(table, i + 1)

\* The response carries the table the description was written from.
call_extract_test_steps_from_description ==
    /\ resp.op = "description"
    /\ resp' = [op |-> "_extract_test_steps_from_description", status_code |-> 0,
                table |-> resp.table,
                value |-> _extract_test_steps_from_description(
                              description_text(resp.table, 1))]
    /\ UNCHANGED <<results_file, issue_status, issue_links, completed_tests>>

\* One issue description, of any table, and the extraction of its steps
InitSteps ==
    /\ results_file = EmptyFile
    /\ issue_status = [k \in Keys |-> "To Do"]
    /\ issue_links = [k \in Keys |-> {}]
    /\ completed_tests = {}
    /\ resp \in {[op |-> "description", status_code |-> 0, table |-> t] : t \in Tables}

NextSteps == call_extract_test_steps_from_description

SpecSteps == InitSteps /\ [][NextSteps]_vars

(***************************************************************************)
(* Properties                                                              *)
(***************************************************************************)
\* The records the store holds: a file that does not decode holds none.
Records == IF results_file.valid THEN results_file.test_results ELSE <<>>

HasRecord(k) == \E i \in 1..Len(Records) : Records[i].test_case_key = k

CompletedKeySet ==
    {k \in Keys : \E i \in 1..Len(Records) :
        /\ Records[i].test_case_key = k
        /\ Records[i].overall_result \in {"Pass", "Fail"}}

Bucket(status) == {k \in Keys : issue_status[k] = status}

C2_CompletedKeys ==
    /\ resp.op = "get_completed_test_keys" =>
          SeqToSet(resp.keys) = CompletedKeySet
    /\ resp.op = "is_test_completed" =>
          (resp.value <=> resp.test_case_key \in CompletedKeySet)

\* A key whose only record is "Blocked" is not returned, one with "Fail" is.
C2_Witness ==
    /\ resp.op = "get_completed_test_keys"
    /\ \E i \in 1..Len(Records), j \in 1..Len(Records) :
          /\ Records[i].overall_result = "Blocked"
          /\ Records[i].test_case_key \notin SeqToSet(resp.keys)
          /\ Records[j].overall_result = "Fail"
          /\ Records[j].test_case_key \in SeqToSet(resp.keys)

\* C3: the store holds at most one record per key; a successful update
\* leaves the submitted record as the key's record; a key occurs at most
\* once in the list get_completed_test_keys returns.
C3_OneRecordPerKey ==
    /\ \A i \in 1..Len(Records), j \in 1..Len(Records) :
          Records[i].test_case_key = Records[j].test_case_key => i = j
    /\ (resp.op = "update_test_result" /\ resp.ok) =>
          \E i \in 1..Len(Records) :
             Records[i] = [test_case_key |-> resp.test_case_key,
                           overall_result |-> resp.overall_result]
    /\ resp.op = "get_completed_test_keys" =>
          \A i \in 1..Len(resp.keys), j \in 1..Len(resp.keys) :
             resp.keys[i] = resp.keys[j] => i = j

\* A resubmission: the record updated last is not the last of the store, so
\* it was there before the store's last record was appended.
C3_Witness ==
    /\ resp.op = "update_test_result" /\ resp.ok
    /\ Len(Records) >= 2
    /\ Records[1] = [test_case_key |-> resp.test_case_key,
                     overall_result |-> resp.overall_result]

\* C4: once a key has a record, it has one in every later state.
C4_NeverRemoved ==
    [][\A k \in Keys : HasRecord(k) => HasRecord(k)']_vars

\* C5: _can_execute_test is false for a key in the cached completed set,
\* whatever its dependencies; otherwise it is true iff every key that
\* _find_dependencies returns is in the cached completed set.
C5_CanExecute ==
    resp.op = "_can_execute_test" =>
        LET deps == _find_dependencies(resp.key, resp.env)
        IN  /\ resp.key \in completed_tests => ~resp.value
            /\ resp.key \notin completed_tests =>
                  (resp.value <=> deps \subseteq completed_tests)

\* A test that is not completed and has dependencies, all of them in the
\* cached completed set, can execute.
C5_Witness ==
    /\ resp.op = "_can_execute_test" /\ resp.value
    /\ _find_dependencies(resp.key, resp.env) # {}

\* C6: refresh_completed_tests leaves the cache equal to the completed keys
\* of the store; with such a cache, a test X that is not completed and whose
\* dependencies are {Y} cannot execute while Y has no Pass/Fail record, and
\* can execute once Y's record is "Pass".
C6_DependencyUnblocked ==
    /\ resp.op = "refresh_completed_tests" => completed_tests = CompletedKeySet
    /\ (/\ resp.op = "_can_execute_test"
        /\ resp.env = DepOk
        /\ resp.key \in Keys
        /\ completed_tests = CompletedKeySet
        /\ resp.key \notin CompletedKeySet) =>
          \A y \in Keys :
             issue_links[resp.key] = {y} =>
                /\ y \notin CompletedKeySet => ~resp.value
                /\ (\E i \in 1..Len(Records) :
                       Records[i] = [test_case_key |-> y, overall_result |-> "Pass"])
                     => resp.value

\* X depends on Y, Y's record is "Pass", the cache has been refreshed, and
\* _can_execute_test(X) has answered true.
C6_Witness ==
    /\ resp.op = "_can_execute_test" /\ resp.env = DepOk /\ resp.value
    /\ \E y \in Keys :
          /\ issue_links[resp.key] = {y}
          /\ y \in completed_tests
          /\ \E i \in 1..Len(Records) :
                Records[i] = [test_case_key |-> y, overall_result |-> "Pass"]

\* The place of key k in the tracker's answer for a status, 0 when not in it
PlaceIn(tests, k) ==
    IF \E i \in 1..Len(tests) : tests[i].key = k
    THEN CHOOSE i \in 1..Len(tests) : tests[i].key = k
    ELSE 0

Executable(status, envs) ==
    {k \in Bucket(status) : _can_execute_test([key |-> k], envs[k])}

\* C7: find_executable_tests(status) returns exactly the tracker's tests of
\* that status that can execute, in the tracker's order; get_next_test
\* returns the first of those for "To Do", and None iff there is none.
C7_FindExecutable ==
    /\ (resp.op = "find_executable_tests" /\ ~resp.raised) =>
          LET bucket == get_test_cases_by_status(resp.status)
          IN  /\ TestKeys(resp.value) = Executable(resp.status, resp.envs)
              /\ \A i \in 1..Len(resp.value) :
                    resp.value[i] = bucket[PlaceIn(bucket, resp.value[i].key)]
              /\ \A i \in 1..Len(resp.value), j \in 1..Len(resp.value) :
                    i < j => PlaceIn(bucket, resp.value[i].key)
                               < PlaceIn(bucket, resp.value[j].key)
    /\ (resp.op = "get_next_test" /\ ~resp.raised) =>
          LET bucket == get_test_cases_by_status("To Do")
              ex == Executable("To Do", resp.envs)
          IN  /\ resp.value.found <=> ex # {}
              /\ resp.value.found =>
                    /\ resp.value.test.key \in ex
                    /\ \A k \in ex : PlaceIn(bucket, resp.value.test.key)
                                       <= PlaceIn(bucket, k)

\* get_next_test passes over an earlier To Do test that cannot execute.
C7_Witness ==
    /\ resp.op = "get_next_test" /\ ~resp.raised /\ resp.value.found
    /\ \E k \in Bucket("To Do") :
          /\ k > resp.value.test.key
          /\ k \notin completed_tests
          /\ ~(issue_links[k] \subseteq completed_tests)

\* The test a resolver made for the request would select: the first To Do
\* test, in the tracker's order, that is not completed and whose
\* dependencies are completed.
NextTestOfRequest ==
    LET ex == {k \in Bucket("To Do") :
                  k \notin CompletedKeySet /\ issue_links[k] \subseteq CompletedKeySet}
    IN  IF ex = {} THEN NoKey ELSE CHOOSE k \in ex : \A x \in ex : x <= k

\* C8: a 'get prompt' request without a key is answered with the prompt of
\* the test get_next_test selects; a request with a key is answered about
\* that key.
C8_AutoSelect ==
    (resp.op = "get_test_prompt" /\ resp.env = AllOk) =>
        /\ (resp.test_case_key = NoKey /\ NextTestOfRequest # NoKey) =>
              /\ resp.status_code = 200
              /\ resp.prompt = generate_prompt([key |-> NextTestOfRequest])
        /\ (resp.test_case_key # NoKey /\ resp.status_code = 200) =>
              resp.prompt = generate_prompt([key |-> resp.test_case_key])

\* C9: 'get prompt' answers 404 for a key that does not resolve in the
\* tracker, 400 for a key that is locally completed or in the tracker's Done
\* bucket, and never a prompt for such a key; every other key gets its
\* prompt (a failing search or log write is answered 500); a 404 or 400
\* leaves the store's records as they were.
C9_Responses ==
    resp.op = "get_test_prompt" =>
        LET k == resp.test_case_key
            resolves == k \in Keys /\ resp.env.lookup_ok
            completed == k \in CompletedKeySet
            done == k \in Bucket("Done")
        IN  /\ resp.status_code = 200 =>
                  /\ resolves /\ ~completed /\ ~done
                  /\ resp.prompt = generate_prompt([key |-> k])
            /\ ~resolves => resp.status_code = 404
            /\ (resolves /\ completed) => resp.status_code = 400
            /\ (resolves /\ ~completed /\ done /\ resp.env.search_ok) =>
                  resp.status_code = 400
            /\ (resolves /\ ~completed /\ ~done
                  /\ resp.env.search_ok /\ resp.env.log_ok) =>
                  resp.status_code = 200
            /\ resp.status_code = 500 =>
                  ~resp.env.search_ok \/ ~resp.env.log_ok

C9_Rejection ==
    [][(resp'.op = "get_test_prompt" /\ resp'.status_code \in {400, 404})
          => Records' = Records]_vars

C9_PromptRejections == []C9_Responses /\ C9_Rejection

\* A key that has no local record and is Done in the tracker is turned away.
C9_Witness ==
    /\ resp.op = "get_test_prompt" /\ resp.status_code = 400
    /\ resp.test_case_key \in Bucket("Done")
    /\ resp.test_case_key \notin CompletedKeySet
    /\ Len(Records) > 0

\* C10: a submission whose save failed is answered 500, and a 200 is
\* answered only when the submitted record is in the store.
C10_SaveFailureSurfaced ==
    resp.op = "send_test_results" =>
        /\ ~resp.update_successful => resp.status_code = 500
        /\ resp.status_code = 200 =>
              /\ resp.update_successful
              /\ \E i \in 1..Len(Records) : Records[i] = resp.submitted

\* A submission whose save failed, with the file left as it was, has been
\* answered 500.
C10_Witness ==
    /\ resp.op = "send_test_results"
    /\ ~resp.update_successful
    /\ resp.status_code = 500
    /\ Len(Records) > 0

Outstanding ==
    ((Bucket("To Do") \cup Bucket("In Progress")) \ Bucket("Done"))
        \ CompletedKeySet

\* C12: a 200 answer of 'submit results' comes with the submitted record in
\* the store, remaining_test_count equal to the number of outstanding tests
\* of the store as the write left it, and has_more_tests true iff that
\* number is positive; a key submitted as Pass or Fail is not among them.
C12_RemainingAfterWrite ==
    (resp.op = "send_test_results" /\ resp.status_code = 200) =>
        /\ \E i \in 1..Len(Records) : Records[i] = resp.submitted
        /\ resp.remaining_test_count = Cardinality(Outstanding)
        /\ resp.has_more_tests <=> resp.remaining_test_count > 0
        /\ resp.submitted.overall_result \in {"Pass", "Fail"} =>
              /\ resp.submitted.test_case_key \notin Outstanding
              /\ resp.remaining_test_count
                    <= Cardinality((Bucket("To Do") \cup Bucket("In Progress"))
                                      \ {resp.submitted.test_case_key})

\* A To Do test is submitted as Pass for the first time while another is
\* still outstanding: the answer counts the other one only.
C12_Witness ==
    /\ resp.op = "send_test_results" /\ resp.status_code = 200
    /\ resp.submitted.overall_result = "Pass"
    /\ resp.submitted.test_case_key \in Bucket("To Do")
    /\ Len(Records) = 1
    /\ resp.remaining_test_count = 1
    /\ resp.has_more_tests

\* C13: a key that is in the completed keys of the store stays there in
\* every later state, whatever is submitted.
C13_SubmittedKept ==
    [][\A k \in Keys : k \in CompletedKeySet => k \in CompletedKeySet']_vars

\* C13, amended: a successful submission for a completed key replaces the
\* key's record in place, and the key is completed afterwards iff the new
\* overall_result is "Pass" or "Fail"; a completed key stops being completed
\* only by such a submission with another overall_result, or by an update
\* whose save fails.
C13_ResubmissionReplaces ==
    [][\A k \in Keys : k \in CompletedKeySet =>
          /\ (/\ resp'.op = "update_test_result"
              /\ resp'.ok
              /\ resp'.test_case_key = k) =>
                /\ Len(Records') = Len(Records)
                /\ \E i \in 1..Len(Records') :
                      /\ Records[i].test_case_key = k
                      /\ Records'[i] = [test_case_key |-> k,
                                        overall_result |-> resp'.overall_result]
                /\ k \in CompletedKeySet' <=>
                      resp'.overall_result \in {"Pass", "Fail"}
          /\ k \notin CompletedKeySet' =>
                /\ resp'.op = "update_test_result"
                /\ \/ ~resp'.ok
                   \/ /\ resp'.test_case_key = k
                      /\ resp'.overall_result \notin {"Pass", "Fail"}]_vars

\* A key that was completed when the cache was last refreshed has been
\* submitted again as "Blocked": it has a record and is not completed.
C13_Witness ==
    /\ resp.op = "update_test_result" /\ resp.ok
    /\ resp.overall_result = "Blocked"
    /\ resp.test_case_key \in completed_tests
    /\ HasRecord(resp.test_case_key)
    /\ resp.test_case_key \notin CompletedKeySet

\* C14: the cached completed set changes only in refresh_completed_tests
\* (which is also what the constructor does), and is then the completed keys
\* of the store at that moment; update_test_result, find_executable_tests,
\* _can_execute_test, _find_dependencies and get_next_test leave it as it
\* was; _can_execute_test answers from the cache, whatever the store holds.
C14_AnswersFromCache ==
    resp.op = "_can_execute_test" =>
        (resp.value <=>
            /\ resp.key \notin completed_tests
            /\ _find_dependencies(resp.key, resp.env) \subseteq completed_tests)

C14_CacheChanges ==
    [][/\ completed_tests' # completed_tests =>
             resp'.op = "refresh_completed_tests"
       /\ resp'.op = "refresh_completed_tests" =>
             completed_tests' = CompletedKeySet'
       /\ resp'.op \in {"update_test_result", "find_executable_tests",
                         "_can_execute_test", "_find_dependencies",
                         "get_next_test"} =>
             completed_tests' = completed_tests]_vars

C14_CacheFrame == []C14_AnswersFromCache /\ C14_CacheChanges

\* The store has a Pass record for a key the cache does not hold, and
\* _can_execute_test has answered true for that key.
C14_Witness ==
    /\ resp.op = "_can_execute_test" /\ resp.env = DepOk /\ resp.value
    /\ resp.key \in CompletedKeySet
    /\ resp.key \notin completed_tests
    /\ completed_tests # {}

\* The cells of a table line that are not blank
Filled(cells) == SelectSeq(cells, LAMBDA cell : cell # Blank)

\* The place of the first header line of a table, 0 when it has none
FirstHeader(table) ==
    IF \E i \in 1..Len(table) : table[i].kind = "header"
    THEN CHOOSE i \in 1..Len(table) :
            /\ table[i].kind = "header"
            /\ \A j \in 1..(i - 1) : table[j].kind # "header"
    ELSE 0

\* One step for each line from the i-th on that is of one of the kinds and
\* has at least three cells that are not blank, from the first three of them
RECURSIVE StepsOfLines(_, _, _)
StepsOfLines(table, i, kinds) ==
    IF i > Len(table) THEN <<>>
    ELSE LET cells == Filled(table[i].cells)
         IN  (IF table[i].kind \in kinds /\ Len(cells) >= 3
              THEN <<[test |-> <<cells[1]>>, test_step |-> <<cells[2]>>,
                      expected_output |-> <<cells[3]>>]>>
              ELSE <<>>)
             \o StepsOfLines(table, i + 1, kinds)

StepsAfterHeader(table, kinds) ==
    IF FirstHeader(table) = 0 THEN <<>>
    ELSE StepsOfLines(table, FirstHeader(table) + 1, kinds)

\* C15: the steps extracted from a description are, in order, one for each
\* data row (a line after the first header that begins with a single pipe)
\* with at least three trimmed non-empty cells, made of the first three of
\* them; no line that begins with a double pipe yields a step.
C15_OneStepPerRow ==
    resp.op = "_extract_test_steps_from_description" =>
        resp.value = StepsAfterHeader(resp.table, {"row"})

\* C15, amended: only the first line that begins with a double pipe is
\* passed over; every later line that begins with a pipe, a later header
\* line among them, yields one step if it has at least three trimmed
\* non-empty cells, made of the first three of them, in order; the lines
\* before the first header and the lines that do not begin with a pipe
\* yield nothing.
C15_StepsAfterFirstHeader ==
    resp.op = "_extract_test_steps_from_description" =>
        resp.value = StepsAfterHeader(resp.table, {"row", "header"})

\* A header, then a row of four cells with the second blank, then a second
\* header of three columns: two steps, the first from cells 1, 3 and 4.
C15_Witness ==
    /\ resp.op = "_extract_test_steps_from_description"
    /\ Len(resp.table) = 3
    /\ resp.table[1].kind = "header"
    /\ resp.table[2] = [kind |-> "row", cells |-> RowCells(4, 2)]
    /\ resp.table[3] = [kind |-> "header", cells |-> RowCells(3, 0)]
    /\ Len(resp.value) = 2
    /\ resp.value[1] = [test |-> <<"a">>, test_step |-> <<"c">>,
                        expected_output |-> <<"d">>]

=============================================================================
